---- MODULE Spec2Model ----
(***************************************************************************)
(* Model of cz_github_convention.py: the scope and subject filters, the    *)
(* message composer, the schema matcher behind process_commit, the bump    *)
(* table, the changelog hook and the configuration check of the class      *)
(* body.                                                                   *)
(*                                                                         *)
(* A Python str is modelled as a sequence of characters, each character a  *)
(* one-element TLA+ string; the emoji code points are named below.         *)
(***************************************************************************)
EXTENDS Integers, Sequences, FiniteSets, TLC

VARIABLES pc, conf, github_repo, stdout, exit_status, op, arg, ret, heap

vars == <<pc, conf, github_repo, stdout, exit_status, op, arg, ret, heap>>

\* ------------------------------------------------------------------ bounds
\* longest raw scope typed at the scope prompt
MaxScopeLen == 5
\* longest raw subject typed at the subject prompt
MaxSubjectLen == 5
\* longest text after the header of a commit line given to process_commit
MaxRestLen == 4
\* longest commit revision given to the changelog hook
MaxRevLen == 6

\* ------------------------------------------------------------- characters
E_bug == "U+1F41B"
E_tada == "U+1F389"
E_scroll == "U+1F4DC"
E_cool == "U+1F60E"
E_wrench == "U+1F527"
E_rocket == "U+1F680"
E_light == "U+1F6A6"
E_construction == "U+1F6A7"
E_saucer == "U+1F6F8"
E_siren == "U+1F6A8"

\* Every character has one spelling: a character up to U+00FF is written as
\* itself (tab, line feed, form feed and carriage return by their escapes), a
\* character above U+00FF is named by its code point, as the emoji are.
C_VT == ""
C_NBSP == " "
C_EM_SPACE == "U+2003"

\* the 29 characters for which str.isspace() holds: what str.strip(),
\* str.split() and \s (in a str pattern) treat as whitespace
PyWhitespace ==
  {"\t", "\n", "", "\f", "\r", "", "", "", "", " ", "", " ",
   "U+1680", "U+2000", "U+2001", "U+2002", "U+2003", "U+2004", "U+2005",
   "U+2006", "U+2007", "U+2008", "U+2009", "U+200A", "U+2028", "U+2029",
   "U+202F", "U+205F", "U+3000"}

\* the line break: the one character "." does not match, and what
\* split("\n") splits on
IsLineBreak(ch) == ch = "\n"

\* str.isspace / \s
IsSpace(ch) == ch \in PyWhitespace

\* all strings over alphabet A of length at most n
StrUpTo(A, n) == UNION {[1..k -> A] : k \in 0..n}

\* ---------------------------------------------------------------- str ops
RECURSIVE LStripSet(_, _)
LStripSet(s, cs) ==
  IF s = <<>> THEN <<>>
  ELSE IF Head(s) \in cs THEN LStripSet(Tail(s), cs) ELSE s

RECURSIVE RStripSet(_, _)
RStripSet(s, cs) ==
  IF s = <<>> THEN <<>>
  ELSE IF s[Len(s)] \in cs THEN RStripSet(SubSeq(s, 1, Len(s) - 1), cs) ELSE s

\* str.strip(chars)
StripChars(s, cs) == RStripSet(LStripSet(s, cs), cs)

\* str.strip()
Strip(s) == StripChars(s, PyWhitespace)

\* str.split(): the maximal runs of non-whitespace characters, in order
RECURSIVE SplitFrom(_, _, _)
SplitFrom(s, cur, acc) ==
  IF s = <<>> THEN (IF cur = <<>> THEN acc ELSE Append(acc, cur))
  ELSE IF IsSpace(Head(s))
       THEN SplitFrom(Tail(s), <<>>, IF cur = <<>> THEN acc ELSE Append(acc, cur))
       ELSE SplitFrom(Tail(s), Append(cur, Head(s)), acc)

Split(s) == SplitFrom(s, <<>>, <<>>)

\* sep.join(parts)
RECURSIVE Join(_, _)
Join(sep, parts) ==
  IF parts = <<>> THEN <<>>
  ELSE IF Len(parts) = 1 THEN parts[1]
  ELSE parts[1] \o sep \o Join(sep, Tail(parts))

\* s.startswith(p)
StartsWith(s, p) == Len(p) <= Len(s) /\ SubSeq(s, 1, Len(p)) = p

\* s[i:], 1-based i
From(s, i) == SubSeq(s, i, Len(s))

\* s[:n]
Take(s, n) == SubSeq(s, 1, IF n < Len(s) THEN n ELSE Len(s))

\* number of positions of s holding ch
Count(s, ch) == Cardinality({i \in 1..Len(s) : s[i] = ch})

\* sub occurs in s
Contains(s, sub) ==
  \E i \in 1..(Len(s) - Len(sub) + 1) : SubSeq(s, i, i + Len(sub) - 1) = sub

\* ------------------------------------------------------------ parse_scope
\* (a slip: the tokens joined with a comma, the other variant's separator)
parse_scope_comma(text) ==
  IF text = <<>> THEN <<>>
  ELSE LET scope == Split(Strip(text))
       IN IF Len(scope) = 1 THEN scope[1] ELSE Join(<<",">>, scope)

parse_scope(text) ==
  IF text = <<>> THEN <<>>
  ELSE LET scope == Split(Strip(text))
       IN IF Len(scope) = 1 THEN scope[1] ELSE Join(<<"-">>, scope)

\* ---------------------------------------------------------- parse_subject
\* commitizen.cz.utils.required_validator: raises on a falsy answer,
\* returns the answer otherwise
required_validator(answer, msg) ==
  IF answer = <<>>
  THEN [raised |-> TRUE, msg |-> msg, value |-> <<>>]
  ELSE [raised |-> FALSE, msg |-> "", value |-> answer]

\* (a slip: whitespace trimmed, the periods left in place)
parse_subject_keep_periods(text) ==
  required_validator(Strip(text), "Subject is required.")

parse_subject(text) ==
  required_validator(Strip(StripChars(text, {"."})), "Subject is required.")

\* -------------------------------------------------------------- questions
S_fix == <<"f", "i", "x">>
S_feat == <<"f", "e", "a", "t">>
S_docs == <<"d", "o", "c", "s">>
S_style == <<"s", "t", "y", "l", "e">>
S_refactor == <<"r", "e", "f", "a", "c", "t", "o", "r">>
S_perf == <<"p", "e", "r", "f">>
S_test == <<"t", "e", "s", "t">>
S_build == <<"b", "u", "i", "l", "d">>
S_ci == <<"c", "i">>
S_chore == <<"c", "h", "o", "r", "e">>
S_revert == <<"r", "e", "v", "e", "r", "t">>
S_bump == <<"b", "u", "m", "p">>

\* the "value" of each choice of the prefix question, in menu order
prefix_choices ==
  << <<E_bug, " ">> \o S_fix,
     <<E_tada, " ">> \o S_feat,
     <<E_scroll, " ">> \o S_docs,
     <<E_cool, " ">> \o S_style,
     <<E_wrench, " ">> \o S_refactor,
     <<E_rocket, " ">> \o S_perf,
     <<E_light, " ">> \o S_test,
     <<E_construction, " ">> \o S_build,
     <<E_saucer, " ">> \o S_ci >>

\* the prompts: kind, answer name and the filter applied to the raw input
questions ==
  << [type |-> "list", name |-> "prefix", filter |-> "", choices |-> prefix_choices],
     [type |-> "input", name |-> "scope", filter |-> "parse_scope", choices |-> <<>>],
     [type |-> "input", name |-> "subject", filter |-> "parse_subject", choices |-> <<>>],
     [type |-> "input", name |-> "body", filter |-> "multiple_line_breaker", choices |-> <<>>],
     [type |-> "confirm", name |-> "is_breaking_change", filter |-> "", choices |-> <<>>],
     [type |-> "input", name |-> "footer", filter |-> "", choices |-> <<>>] >>

\* ---------------------------------------------------------------- message
\* "BREAKING CHANGE <siren>: "
BreakingMarker ==
  <<"B", "R", "E", "A", "K", "I", "N", "G", " ", "C", "H", "A", "N", "G", "E",
    " ", E_siren, ":", " ">>

NL2 == <<"\n", "\n">>

\* (a slip: the parentheses written even when the scope is empty)
message_always_parens(answers) ==
  LET scope == <<"(">> \o answers.scope \o <<")">>
      body == IF answers.body # <<>> THEN NL2 \o answers.body ELSE answers.body
      footer0 == IF answers.is_breaking_change
                 THEN BreakingMarker \o answers.footer ELSE answers.footer
      footer == IF footer0 # <<>> THEN NL2 \o footer0 ELSE footer0
  IN answers.prefix \o scope \o <<":", " ">> \o answers.subject \o body \o footer

\* (a slip: the marker added only when footer text was supplied)
message_marker_needs_footer(answers) ==
  LET scope == IF answers.scope # <<>>
               THEN <<"(">> \o answers.scope \o <<")">> ELSE answers.scope
      body == IF answers.body # <<>> THEN NL2 \o answers.body ELSE answers.body
      footer0 == IF answers.is_breaking_change /\ answers.footer # <<>>
                 THEN BreakingMarker \o answers.footer ELSE answers.footer
      footer == IF footer0 # <<>> THEN NL2 \o footer0 ELSE footer0
  IN answers.prefix \o scope \o <<":", " ">> \o answers.subject \o body \o footer

message(answers) ==
  LET scope == IF answers.scope # <<>>
               THEN <<"(">> \o answers.scope \o <<")">> ELSE answers.scope
      body == IF answers.body # <<>> THEN NL2 \o answers.body ELSE answers.body
      footer0 == IF answers.is_breaking_change
                 THEN BreakingMarker \o answers.footer ELSE answers.footer
      footer == IF footer0 # <<>> THEN NL2 \o footer0 ELSE footer0
  IN answers.prefix \o scope \o <<":", " ">> \o answers.subject \o body \o footer

\* --------------------------------------------------------- schema_pattern
\* the alternatives of the first group, in the order written
schema_types ==
  <<S_build, S_ci, S_docs, S_feat, S_fix, S_perf, S_refactor, S_style, S_test,
    S_chore, S_revert, S_bump>>

\* c[i], or "" past the end of c
At(c, i) == IF i >= 1 /\ i <= Len(c) THEN c[i] ELSE ""

\* !?:\s tried at position p: the position of the colon, 0 when it fails
ColonAt(c, p) ==
  IF At(c, p) = "!" /\ At(c, p + 1) = ":" /\ IsSpace(At(c, p + 2)) THEN p + 1
  ELSE IF At(c, p) = ":" /\ IsSpace(At(c, p + 1)) THEN p
  ELSE 0

\* (\(\S+\)) tried at position p: the positions its closing parenthesis can take
ScopeCloses(c, p) ==
  {q \in (p + 2)..Len(c) :
     /\ At(c, p) = "("
     /\ c[q] = ")"
     /\ \A j \in (p + 1)..(q - 1) : ~IsSpace(c[j])}

\* (\(\S+\))?!?:\s tried at position p, the optional group greedy: the
\* longest scope the rest of the pattern accepts, else no scope at all
HeaderColon(c, p) ==
  LET good == {q \in ScopeCloses(c, p) : ColonAt(c, q + 1) # 0}
  IN IF good # {}
     THEN ColonAt(c, (CHOOSE q \in good : \A r \in good : r <= q) + 1)
     ELSE ColonAt(c, p)

\* .* from position i: the last position before the next line break
LineEnd(c, i) ==
  CHOOSE e \in (i - 1)..Len(c) :
    /\ \A j \in i..e : ~IsLineBreak(c[j])
    /\ (e = Len(c) \/ IsLineBreak(c[e + 1]))

\* re.match(schema_pattern, c): <<>> for None, else <<group(3)>>
schema_match(c) ==
  LET hits == {k \in 1..Len(schema_types) :
                 /\ StartsWith(c, schema_types[k])
                 /\ HeaderColon(c, Len(schema_types[k]) + 1) # 0}
  IN IF hits = {} THEN <<>>
     ELSE LET k == CHOOSE k \in hits : \A h \in hits : k <= h
              colon == HeaderColon(c, Len(schema_types[k]) + 1)
          IN <<SubSeq(c, colon + 1, LineEnd(c, colon + 2))>>

\* (a slip: group(3) returned as matched, not stripped)
process_commit_unstripped(commit) ==
  LET m == schema_match(commit)
  IN IF m = <<>> THEN <<>> ELSE m[1]

process_commit(commit) ==
  LET m == schema_match(commit)
  IN IF m = <<>> THEN <<>> ELSE Strip(m[1])

\* ------------------------------------------------- bump_pattern, bump_map
S_BREAKING == <<"B", "R", "E", "A", "K", "I", "N", "G">>
S_CHANGE == <<"C", "H", "A", "N", "G", "E">>

\* <emoji>? ?<token> at the start of s: the length it takes, 0 when it fails
IconTokenLen(s, icon, token) ==
  LET a == IF StartsWith(s, <<icon>>) THEN 1 ELSE 0
      b == IF At(s, a + 1) = " " THEN 1 ELSE 0
  IN IF StartsWith(From(s, a + b + 1), token) THEN a + b + Len(token) ELSE 0

\* ^<emoji>? ?<token> matched at the start of s
IconToken(s, icon, token) == IconTokenLen(s, icon, token) # 0

\* group 1 of bump_pattern at the start of s: the length of the first
\* alternative that matches, 0 when none does
BumpTypeLen(s) ==
  IF \E sep \in {"-", " "} : StartsWith(s, S_BREAKING \o <<sep>> \o S_CHANGE)
  THEN Len(S_BREAKING) + 1 + Len(S_CHANGE)
  ELSE IF IconToken(s, E_tada, S_feat) THEN IconTokenLen(s, E_tada, S_feat)
  ELSE IF IconToken(s, E_bug, S_fix) THEN IconTokenLen(s, E_bug, S_fix)
  ELSE IF IconToken(s, E_wrench, S_refactor) THEN IconTokenLen(s, E_wrench, S_refactor)
  ELSE IF IconToken(s, E_rocket, S_perf) THEN IconTokenLen(s, E_rocket, S_perf)
  ELSE 0

\* (\(.+\))? at position p, greedy: the position of the last ")" of the line
\* that leaves at least one character after the "(", p - 1 when the group is
\* skipped
BumpScopeEnd(s, p) ==
  LET closes == {q \in (p + 2)..Len(s) :
                   /\ At(s, p) = "("
                   /\ s[q] = ")"
                   /\ \A j \in (p + 1)..q : ~IsLineBreak(s[j])}
  IN IF closes = {} THEN p - 1
     ELSE CHOOSE q \in closes : \A r \in closes : r <= q

\* re.search(bump_pattern, s): <<>> for None, else <<group(0)>>
bump_pattern(s) ==
  LET t == BumpTypeLen(s)
      e == BumpScopeEnd(s, t + 1)
      f == IF At(s, e + 1) = "!" THEN e + 1 ELSE e
  IN IF t = 0 THEN <<>> ELSE <<SubSeq(s, 1, f)>>

\* re.match(pat, s) for the patterns of bump_map
bump_regex(pat, s) ==
  CASE pat = "^.+!$" ->
         \E n \in 1..Len(s) :
           /\ \A j \in 1..n : ~IsLineBreak(s[j])
           /\ At(s, n + 1) = "!"
           /\ (n + 1 = Len(s) \/ (n + 2 = Len(s) /\ IsLineBreak(s[n + 2])))
    [] pat = "^BREAKING[\\-\\ ]CHANGE" ->
         \E sep \in {"-", " "} : StartsWith(s, S_BREAKING \o <<sep>> \o S_CHANGE)
    [] pat = "^U+1F389? ?feat" -> IconToken(s, E_tada, S_feat)
    [] pat = "^U+1F41B? ?fix" -> IconToken(s, E_bug, S_fix)
    [] pat = "^U+1F527? ?refactor" -> IconToken(s, E_wrench, S_refactor)
    [] pat = "^U+1F680? ?perf" -> IconToken(s, E_rocket, S_perf)

\* (a slip: the feat rule listed before the breaking rules)
bump_map_feat_first ==
  << <<"^U+1F389? ?feat", "MINOR">>,
     <<"^.+!$", "MAJOR">>,
     <<"^BREAKING[\\-\\ ]CHANGE", "MAJOR">>,
     <<"^U+1F41B? ?fix", "PATCH">>,
     <<"^U+1F527? ?refactor", "PATCH">>,
     <<"^U+1F680? ?perf", "PATCH">> >>

\* the (pattern, increment) pairs of bump_map, in the order written
bump_map ==
  << <<"^.+!$", "MAJOR">>,
     <<"^BREAKING[\\-\\ ]CHANGE", "MAJOR">>,
     <<"^U+1F389? ?feat", "MINOR">>,
     <<"^U+1F41B? ?fix", "PATCH">>,
     <<"^U+1F527? ?refactor", "PATCH">>,
     <<"^U+1F680? ?perf", "PATCH">> >>

\* commit.split("\n")[0]
FirstLine(msg) == SubSeq(msg, 1, LineEnd(msg, 1))

\* the bump classifier of the host on the first line of a message:
\* bump_pattern selects the text to classify, the patterns of bump_map are
\* tried on it in order and the first that matches decides; NONE when
\* bump_pattern selects nothing or no pattern matches
classify_bump(msg) ==
  LET found == bump_pattern(FirstLine(msg))
      hits == IF found = <<>> THEN {}
              ELSE {k \in 1..Len(bump_map) : bump_regex(bump_map[k][1], found[1])}
  IN IF hits = {} THEN "NONE"
     ELSE bump_map[CHOOSE k \in hits : \A h \in hits : k <= h][2]

\* ----------------------------------------- changelog_message_builder_hook
S_link_open == <<"]", "(", "h", "t", "t", "p", "s", ":", "/", "/", "g", "i", "t",
                 "h", "u", "b", ".", "c", "o", "m", "/">>
S_commit_path == <<"/", "c", "o", "m", "m", "i", "t", "/">>

\* (a slip: the label cut to 7 characters, git's usual short hash)
hook_message_seven(m, rev, repo) ==
  m \o <<" ", "[">> \o Take(rev, 7) \o S_link_open \o repo \o S_commit_path
    \o rev \o <<")">>

\* the f-string stored under "message"
hook_message(m, rev, repo) ==
  m \o <<" ", "[">> \o Take(rev, 5) \o S_link_open \o repo \o S_commit_path
    \o rev \o <<")">>

\* ----------------------------------------------------------------- inputs
S_org_repo == <<"o", "r", "g", "/", "r", "e", "p", "o">>
S_add_index == <<"a", "d", "d", " ", "i", "n", "d", "e", "x">>
S_bump_deps == <<"b", "u", "m", "p", " ", "d", "e", "p", "s">>
S_chore_bump_deps == S_chore \o <<":", " ">> \o S_bump_deps
S_not_conventional ==
  <<"n", "o", "t", " ", "a", " ", "c", "o", "n", "v", "e", "n", "t", "i", "o",
    "n", "a", "l", " ", "m", "e", "s", "s", "a", "g", "e">>
S_feat_bang_drop ==
  S_feat \o <<"!", ":", " ", "d", "r", "o", "p", " ", "l", "e", "g", "a", "c",
              "y", " ", "A", "P", "I">>
S_Fix_bug_dot == <<"F", "i", "x", " ", "b", "u", "g", ".">>
S_Add_caching_layer ==
  <<"A", "d", "d", " ", "c", "a", "c", "h", "i", "n", "g", " ", "l", "a", "y",
    "e", "r">>
S_abcdef1234567 ==
  <<"a", "b", "c", "d", "e", "f", "1", "2", "3", "4", "5", "6", "7">>

\* the settings config.read_cfg() may return: without and with github_repo
ConfSettings ==
  { [name |-> "cz_github_convention"],
    [name |-> "cz_github_convention", github_repo |-> S_org_repo],
    [name |-> "cz_github_convention", github_repo |-> <<"o", "/", "r">>] }

RawScopes == StrUpTo({" ", "\t", "a", "-", C_NBSP}, MaxScopeLen)

RawSubjects ==
  StrUpTo({" ", ".", "a", C_VT}, MaxSubjectLen) \cup {S_Fix_bug_dot, S_add_index}

\* answers as the prompts deliver them: scope and subject through their filters
AnswerPrefixes == {prefix_choices[k] : k \in 1..Len(prefix_choices)} \cup {S_feat}
AnswerScopes == {parse_scope(t) : t \in {<<>>, <<"d", "b">>, <<"a", " ", "b">>}}
AnswerSubjects ==
  {parse_subject(t).value : t \in {S_add_index, <<"x", ".">>, BreakingMarker \o <<"x">>}}
AnswerBodies == {<<>>, <<"b">>, <<"b", "\n", "c">>, BreakingMarker \o <<"b">>}
AnswerFooters == {<<>>, <<"#", "1">>, BreakingMarker \o <<"f">>}

CommitHeads ==
  {S_fix, S_ci, S_chore, <<"f", "i">>, <<"f", "i", "x", "x">>, <<" ">> \o S_fix,
   <<E_bug, " ">> \o S_fix}
CommitScopes ==
  {<<>>, <<"(", "a", ")">>, <<"(", ")">>, <<"(", "a", " ", "b", ")">>,
   <<"(", "a", ":", "b", ")">>, <<"(", "a", ")", ":", "b", ")">>, <<"(", "a">>,
   <<"(", "a", C_NBSP, "b", ")">>}
CommitBangs == {<<>>, <<"!">>}
CommitColons == {<<>>, <<":">>}
CommitRests ==
  StrUpTo({" ", "\n", "a"}, MaxRestLen)
  \cup {<<":", " ", "a">>, <<" ", "a", ":", " ", "a">>, <<" ", "a", ":">>,
        <<C_NBSP, "a">>, <<C_EM_SPACE, "a", C_VT>>, <<C_VT, "a", "\n", "a">>,
        <<" ", "a", C_VT, "a", C_EM_SPACE>>}
Commits ==
  {h \o s \o b \o c \o r :
     h \in CommitHeads, s \in CommitScopes, b \in CommitBangs, c \in CommitColons,
     r \in CommitRests}
  \cup {S_chore_bump_deps, S_not_conventional}

BumpHeads ==
  {S_feat, S_fix, S_docs, S_perf, <<E_tada, " ">> \o S_feat, <<E_tada>> \o S_feat,
   <<" ">> \o S_feat, <<E_bug, " ">> \o S_fix, <<E_wrench, " ">> \o S_refactor,
   S_BREAKING \o <<" ">> \o S_CHANGE, S_BREAKING \o <<"-">> \o S_CHANGE,
   S_BREAKING \o S_CHANGE, <<E_bug>> \o S_feat, <<E_rocket, " ", " ">> \o S_perf,
   <<"x">>, <<>>}
BumpMids ==
  {<<>>, <<"!">>, <<"(", "a", ")">>, <<"(", "a", ")", "!">>, <<"(", ")">>, <<"(", "a", " ", "b", ")", "!">>}
BumpTails ==
  {<<>>, <<":", " ", "x">>, <<":", " ", "x", "!">>,
   <<":", " ", "x", "\n", "\n", "b", "!">>, <<"\n">>,
   <<":", " ", "(", "b", ")">>, <<":", " ", "b", ")", "!">>}
BumpMessages ==
  {h \o m \o t : h \in BumpHeads, m \in BumpMids, t \in BumpTails}
  \cup {S_feat_bang_drop, S_not_conventional}

HookMessages == {S_Add_caching_layer, <<"x">>, <<>>}
HookRevs == StrUpTo({"a", "1"}, MaxRevLen) \cup {S_abcdef1234567}
HookTypes == {"Feat", "Fix"}

\* ---------------------------------------------------------- state machine
\* pc: "import" before the class body has run, "ready" once the class exists,
\* "exited" after quit().  op/arg/ret: the last provider call, its argument
\* and its result.  heap: the objects the host passed by reference in that
\* call, addressed by position.
Init ==
  /\ pc = "import"
  /\ conf \in ConfSettings
  /\ github_repo = <<>>
  /\ stdout = <<>>
  /\ exit_status = -1
  /\ op = "none"
  /\ arg = <<>>
  /\ ret = <<>>
  /\ heap = <<>>

\* the class body: conf = config.read_cfg(); the github_repo check; quit()
\* raises SystemExit(None), which ends the interpreter with status 0
ClassBody ==
  /\ pc = "import"
  /\ IF "github_repo" \notin DOMAIN conf
     THEN /\ stdout' = Append(stdout,
               "Please add the key github_repo to your .cz.yaml|json|toml config file.")
          /\ exit_status' = 0
          /\ pc' = "exited"
          /\ UNCHANGED github_repo
     ELSE /\ github_repo' = conf.github_repo
          /\ pc' = "ready"
          /\ UNCHANGED <<stdout, exit_status>>
  /\ UNCHANGED <<conf, op, arg, ret, heap>>

Frame == UNCHANGED <<pc, conf, github_repo, stdout, exit_status>>

\* the component is synchronous and single-threaded: the host makes one call
\* at a time, and takes the result before it makes the next
Idle == pc = "ready" /\ op = "none"

HostTakesResult ==
  /\ pc = "ready"
  /\ op # "none"
  /\ op' = "none" /\ arg' = <<>> /\ ret' = <<>> /\ heap' = <<>>
  /\ Frame

Call_questions ==
  /\ Idle
  /\ op' = "questions" /\ arg' = <<>> /\ ret' = questions /\ heap' = <<>>
  /\ Frame

Call_parse_scope ==
  /\ Idle
  /\ \E text \in RawScopes :
       op' = "parse_scope" /\ arg' = text /\ ret' = parse_scope(text)
  /\ heap' = <<>>
  /\ Frame

Call_parse_subject ==
  /\ Idle
  /\ \E text \in RawSubjects :
       op' = "parse_subject" /\ arg' = text /\ ret' = parse_subject(text)
  /\ heap' = <<>>
  /\ Frame

Call_message ==
  /\ Idle
  /\ \E prefix \in AnswerPrefixes, scope \in AnswerScopes,
        subject \in AnswerSubjects, body \in AnswerBodies,
        footer \in AnswerFooters, is_breaking_change \in BOOLEAN :
       LET answers == [prefix |-> prefix, scope |-> scope, subject |-> subject,
                       body |-> body, footer |-> footer,
                       is_breaking_change |-> is_breaking_change]
       IN op' = "message" /\ arg' = answers /\ ret' = message(answers)
  /\ heap' = <<>>
  /\ Frame

Call_process_commit ==
  /\ Idle
  /\ \E commit \in Commits :
       op' = "process_commit" /\ arg' = commit /\ ret' = process_commit(commit)
  /\ heap' = <<>>
  /\ Frame

Call_classify_bump ==
  /\ Idle
  /\ \E msg \in BumpMessages :
       op' = "classify_bump" /\ arg' = msg /\ ret' = classify_bump(msg)
  /\ heap' = <<>>
  /\ Frame

\* parsed_message["message"] is assigned in place and the same dict returned
Call_changelog_message_builder_hook ==
  /\ Idle
  /\ \E m \in HookMessages, rev \in HookRevs, ct \in HookTypes :
       LET entry == [message |-> m, change_type |-> ct]
       IN /\ op' = "changelog_message_builder_hook"
          /\ arg' = [parsed_message |-> 1, entry_before |-> entry, rev |-> rev]
          /\ heap' = <<[entry EXCEPT !.message = hook_message(m, rev, github_repo)]>>
          /\ ret' = 1
  /\ Frame

Next ==
  \/ ClassBody
  \/ Call_questions
  \/ Call_parse_scope
  \/ Call_parse_subject
  \/ Call_message
  \/ Call_process_commit
  \/ Call_classify_bump
  \/ Call_changelog_message_builder_hook
  \/ HostTakesResult

Spec == Init /\ [][Next]_vars

\* ================================================================= claims
\* s.endswith(suf)
EndsWith(s, suf) ==
  Len(suf) <= Len(s) /\ SubSeq(s, Len(s) - Len(suf) + 1, Len(s)) = suf

\* the positions where a whitespace-separated token of s starts
TokenStarts(s) ==
  {i \in 1..Len(s) : ~IsSpace(s[i]) /\ (i = 1 \/ IsSpace(s[i - 1]))}

\* s between its first and its last character outside cs; empty when it has none
Core(s, cs) ==
  LET keep == {i \in 1..Len(s) : s[i] \notin cs}
  IN IF keep = {} THEN <<>>
     ELSE SubSeq(s, CHOOSE i \in keep : \A j \in keep : i <= j,
                    CHOOSE i \in keep : \A j \in keep : j <= i)

Whitespace == PyWhitespace

\* x is nothing, or a parenthesised scope: "(", one or more non-blanks, ")"
IsOptScope(x) ==
  \/ x = <<>>
  \/ /\ Len(x) >= 3
     /\ x[1] = "("
     /\ x[Len(x)] = ")"
     /\ \A j \in 2..(Len(x) - 1) : x[j] \notin Whitespace

\* h is <type>[(<scope>)][!] with <type> one of the enumerated tokens
IsHeader(h) ==
  \E k \in 1..Len(schema_types) :
    /\ StartsWith(h, schema_types[k])
    /\ LET r == From(h, Len(schema_types[k]) + 1)
       IN \/ IsOptScope(r)
          \/ r # <<>> /\ r[Len(r)] = "!" /\ IsOptScope(SubSeq(r, 1, Len(r) - 1))

\* the colons of c that end a header and are followed by a blank
GrammarColons(c) ==
  {i \in 1..(Len(c) - 1) :
     c[i] = ":" /\ c[i + 1] \in Whitespace /\ IsHeader(SubSeq(c, 1, i - 1))}

\* ---- C1
\* C1 as stated: process_commit returns, trimmed, all the text after the colon
\* of a commit that follows <type>[(<scope>)][!]: <message>, and the empty
\* string for every other commit.
C1_AllTextAfterColon ==
  op = "process_commit" =>
    IF GrammarColons(arg) = {} THEN ret = <<>>
    ELSE \A i \in GrammarColons(arg) : ret = Core(From(arg, i + 1), Whitespace)

\* C1 amended: process_commit returns, trimmed, the text after the colon up to
\* the end of the line the message starts on (the character after the colon,
\* which may itself be a line break, and what follows it up to the next line
\* break), and the empty string for every commit outside the grammar;
\* "chore: bump deps" gives "bump deps", "not a conventional message" gives "".
C1_FirstLineAfterColon ==
  op = "process_commit" =>
    /\ IF GrammarColons(arg) = {} THEN ret = <<>>
       ELSE \A i \in GrammarColons(arg) :
              ret = Core(<<arg[i + 1]>> \o FirstLine(From(arg, i + 2)), Whitespace)
    /\ (arg = S_chore_bump_deps => ret = S_bump_deps)
    /\ (arg = S_not_conventional => ret = <<>>)

\* a commit inside the grammar whose message runs over a line break
C1_Witness ==
  /\ op = "process_commit"
  /\ GrammarColons(arg) # {}
  /\ ret # <<>>
  /\ \E i \in GrammarColons(arg) : ret # Core(From(arg, i + 1), Whitespace)

\* ---- C2
\* the increment the rules give for the text t in the order the claim lists
\* them: the breaking rules before the feat rule, the feat rule before the
\* patch rules
IncrementInOrder(t) ==
  IF Len(t) >= 2 /\ t[Len(t)] = "!" THEN "MAJOR"
  ELSE IF StartsWith(t, S_BREAKING \o <<"-">> \o S_CHANGE)
          \/ StartsWith(t, S_BREAKING \o <<" ">> \o S_CHANGE) THEN "MAJOR"
  ELSE IF \E pre \in {<<>>, <<" ">>, <<E_tada>>, <<E_tada, " ">>} :
            StartsWith(t, pre \o S_feat) THEN "MINOR"
  ELSE IF \/ \E pre \in {<<>>, <<" ">>, <<E_bug>>, <<E_bug, " ">>} :
               StartsWith(t, pre \o S_fix)
          \/ \E pre \in {<<>>, <<" ">>, <<E_wrench>>, <<E_wrench, " ">>} :
               StartsWith(t, pre \o S_refactor)
          \/ \E pre \in {<<>>, <<" ">>, <<E_rocket>>, <<E_rocket, " ">>} :
               StartsWith(t, pre \o S_perf) THEN "PATCH"
  ELSE "NONE"

\* C2: the bump_map patterns are tried in the order listed on what
\* bump_pattern selects from the first line and the first match decides, so
\* "feat!: drop legacy API" is MAJOR although it also matches the feat
\* pattern, and a first line matching no pattern is NONE.
C2_FirstMatchWins ==
  op = "classify_bump" =>
    /\ (arg = S_feat_bang_drop => ret = "MAJOR")
    /\ (IncrementInOrder(FirstLine(arg)) = "NONE" => ret = "NONE")
    /\ \A n \in 1..Len(FirstLine(arg)) :
         bump_pattern(FirstLine(arg)) = <<SubSeq(FirstLine(arg), 1, n)>>
           => ret = IncrementInOrder(SubSeq(FirstLine(arg), 1, n))

\* the example of the claim has been classified: the breaking rule and the feat
\* rule both match what bump_pattern selects
C2_Witness ==
  /\ op = "classify_bump"
  /\ arg = S_feat_bang_drop
  /\ bump_regex("^.+!$", bump_pattern(FirstLine(arg))[1])
  /\ bump_regex("^U+1F389? ?feat", bump_pattern(FirstLine(arg))[1])
  /\ ret = "MAJOR"

\* ---- C3
S_feat_db_add_index ==
  <<"f", "e", "a", "t", "(", "d", "b", ")", ":", " ", "a", "d", "d", " ",
    "i", "n", "d", "e", "x">>

\* C3: with is_breaking_change false the message is the type, the scope in
\* parentheses only when there is one, ": ", the subject, then the body and the
\* footer each after a blank line and only when non-empty; type feat, scope db,
\* subject "add index" and nothing else gives "feat(db): add index".
C3_ComposedMessage ==
  (op = "message" /\ ~arg.is_breaking_change) =>
    /\ \E sc \in {<<>>, <<"(">> \o arg.scope \o <<")">>},
          bd \in {<<>>, NL2 \o arg.body},
          ft \in {<<>>, NL2 \o arg.footer} :
         /\ (sc = <<>>) <=> (arg.scope = <<>>)
         /\ (bd = <<>>) <=> (arg.body = <<>>)
         /\ (ft = <<>>) <=> (arg.footer = <<>>)
         /\ ret = arg.prefix \o sc \o <<":", " ">> \o arg.subject \o bd \o ft
    /\ (arg = [prefix |-> S_feat, scope |-> <<"d", "b">>, subject |-> S_add_index,
               body |-> <<>>, footer |-> <<>>, is_breaking_change |-> FALSE]
          => ret = S_feat_db_add_index)

\* the example of the claim has been composed
C3_Witness ==
  /\ op = "message"
  /\ ~arg.is_breaking_change
  /\ arg.prefix = S_feat /\ arg.scope = <<"d", "b">> /\ arg.subject = S_add_index
  /\ arg.body = <<>> /\ arg.footer = <<>>
  /\ ret = S_feat_db_add_index

\* ---- C4
\* C4: with is_breaking_change true the message ends with a blank line, the
\* marker "BREAKING CHANGE <siren>: " and the footer text, also when the footer
\* text is empty; with is_breaking_change false the marker occurs in the
\* message only where the user typed it into a field.
C4_BreakingFooter ==
  op = "message" =>
    /\ arg.is_breaking_change => EndsWith(ret, NL2 \o BreakingMarker \o arg.footer)
    /\ (~arg.is_breaking_change /\ Contains(ret, BreakingMarker)) =>
         \/ Contains(arg.scope, BreakingMarker)
         \/ Contains(arg.subject, BreakingMarker)
         \/ Contains(arg.body, BreakingMarker)
         \/ Contains(arg.footer, BreakingMarker)

\* a breaking change composed without footer text
C4_Witness ==
  /\ op = "message"
  /\ arg.is_breaking_change
  /\ arg.footer = <<>>
  /\ Contains(ret, BreakingMarker)

\* ---- C5
\* s without one trailing period
DropTrailingPeriod(s) ==
  IF s # <<>> /\ s[Len(s)] = "." THEN SubSeq(s, 1, Len(s) - 1) ELSE s

\* C5 as stated: parse_subject removes one trailing period, then trims the
\* surrounding whitespace, and raises the required-field error when nothing
\* is left.
C5_OneTrailingPeriod ==
  op = "parse_subject" =>
    LET t == Core(DropTrailingPeriod(arg), Whitespace)
    IN IF t = <<>> THEN ret.raised
       ELSE ~ret.raised /\ ret.value = t

\* C5 amended: parse_subject removes every leading and every trailing period,
\* then trims the surrounding whitespace ("Fix bug." gives "Fix bug"), and
\* when nothing is left it raises the required-field error with the message
\* "Subject is required." instead of returning a value.
C5_PeriodsStripped ==
  op = "parse_subject" =>
    LET t == Core(Core(arg, {"."}), Whitespace)
    IN /\ IF t = <<>>
          THEN ret.raised /\ ret.msg = "Subject is required."
          ELSE ~ret.raised /\ ret.value = t
       /\ (arg = S_Fix_bug_dot => ret.value = <<"F", "i", "x", " ", "b", "u", "g">>)

\* a subject typed with a leading period and more than one trailing period
C5_Witness ==
  /\ op = "parse_subject"
  /\ Len(arg) >= 4
  /\ arg[1] = "." /\ arg[Len(arg)] = "." /\ arg[Len(arg) - 1] = "."
  /\ ~ret.raised

\* ---- C6
\* C6 as stated: for a non-empty input with N whitespace-separated tokens the
\* result holds exactly N-1 hyphens and no whitespace; empty input gives the
\* empty scope.
C6_ExactlyNMinusOneHyphens ==
  op = "parse_scope" =>
    IF arg = <<>> THEN ret = <<>>
    ELSE /\ Count(ret, "-") = Cardinality(TokenStarts(arg)) - 1
         /\ \A i \in 1..Len(ret) : ret[i] \notin Whitespace

\* C6 amended: for an input with N >= 1 whitespace-separated tokens the result
\* is the tokens joined by single hyphens: it holds no whitespace, every
\* non-blank character of the input, and exactly N-1 hyphens besides those the
\* tokens themselves contain; empty and whitespace-only input give the empty
\* scope.
C6_TokensJoinedByHyphens ==
  op = "parse_scope" =>
    LET n == Cardinality(TokenStarts(arg))
        inked == Cardinality({i \in 1..Len(arg) : arg[i] \notin Whitespace})
    IN IF n = 0 THEN ret = <<>>
       ELSE /\ \A i \in 1..Len(ret) : ret[i] \notin Whitespace
            /\ Count(ret, "-") = (n - 1) + Count(arg, "-")
            /\ Len(ret) = inked + (n - 1)

\* three tokens, one of them holding a hyphen of its own
C6_Witness ==
  /\ op = "parse_scope"
  /\ Cardinality(TokenStarts(arg)) = 3
  /\ Count(arg, "-") = 1
  /\ Count(ret, "-") = 3

\* ---- C7
S_annotated_example ==
  <<"A", "d", "d", " ", "c", "a", "c", "h", "i", "n", "g", " ", "l", "a",
    "y", "e", "r", " ", "[", "a", "b", "c", "d", "e", "]", "(", "h", "t",
    "t", "p", "s", ":", "/", "/", "g", "i", "t", "h", "u", "b", ".", "c",
    "o", "m", "/", "o", "r", "g", "/", "r", "e", "p", "o", "/", "c", "o",
    "m", "m", "i", "t", "/", "a", "b", "c", "d", "e", "f", "1", "2", "3",
    "4", "5", "6", "7", ")">>

\* C7: the returned entry's message is the parsed message, one space, "[", the
\* first 5 characters of the revision, "](https://github.com/", the configured
\* repository, "/commit/", the full revision and ")".
C7_LinkAppended ==
  op = "changelog_message_builder_hook" =>
    LET out == heap[ret].message
        m == arg.entry_before.message
        label == IF Len(arg.rev) <= 5 THEN arg.rev ELSE SubSeq(arg.rev, 1, 5)
    IN /\ out = m \o <<" ", "[">> \o label \o S_link_open \o github_repo
                  \o S_commit_path \o arg.rev \o <<")">>
       /\ (m = S_Add_caching_layer /\ arg.rev = S_abcdef1234567
             /\ github_repo = S_org_repo) => out = S_annotated_example

\* the example of the claim has been annotated
C7_Witness ==
  /\ op = "changelog_message_builder_hook"
  /\ arg.entry_before.message = S_Add_caching_layer
  /\ arg.rev = S_abcdef1234567
  /\ github_repo = S_org_repo
  /\ heap[ret].message = S_annotated_example

\* ---- C8
\* C8: without a github_repo setting the class body prints a diagnostic and
\* ends the process with a non-zero exit status before any provider operation
\* has run.
C8_ExitsNonZero ==
  pc = "exited" =>
    /\ "github_repo" \notin DOMAIN conf
    /\ stdout # <<>>
    /\ op = "none"
    /\ exit_status # 0

\* ---- C9
\* C9: after the hook the entry the caller passed in still holds its original
\* message and its other fields; only the returned entry is annotated.
C9_InputEntryUntouched ==
  op = "changelog_message_builder_hook" =>
    heap[arg.parsed_message] = arg.entry_before

\* ---- C10
\* C10: for every type offered by questions() and every normalized answer
\* set, the composed message matches schema_pattern and process_commit gives
\* back the subject.
C10_ComposedMessageParses ==
  (op = "message" /\ \E k \in 1..Len(questions[1].choices) :
                        arg.prefix = questions[1].choices[k]) =>
    /\ schema_match(ret) # <<>>
    /\ process_commit(ret) = arg.subject

====
